---------------------------- MODULE Spec2Model ----------------------------
(***************************************************************************)
(* A model of check_code (src/main.py): the tree builder and pruner, the   *)
(* task collection, the token fingerprint, the duplicate matcher and the   *)
(* metric visitor.  Each component has its own variables, its own initial  *)
(* predicate and its own next-state relation; a component that a           *)
(* specification does not run stays in its idle state.                     *)
(***************************************************************************)
EXTENDS Integers, Sequences, FiniteSets, TLC

VARIABLES
    \* the file system
    symlinks,     \* symbolic links: link path -> target path
    \* build_tree / prune_tree
    tpc,          \* position: "idle" | "build" | "prune" | "done"
    nodes,        \* the heap of CodeNode objects, indexed by object id
    file_nodes,   \* build_tree's argument: ids of the analysed file nodes
    fidx,         \* index of the next file node the for-loop takes
    root,         \* id of the synthetic root (0 before it exists)
    lookup,       \* build_tree's lookup: resolved directory path -> node id
    current,      \* prune_tree's cursor
    pruned,       \* prune_tree's return value (0 before it returns)
    \* gather_tasks
    gpc,          \* position: "idle" | "loop" | "done" | "raised"
    paths,        \* gather_tasks' argument: the raw paths
    pidx,         \* index of the next raw path the for-loop takes
    tasks,        \* the work list: the paths of the FileTask objects, in order
    seen,         \* the set of paths already turned into tasks
    origins,      \* history: for each task, the argument or directory entry it came from
    warnings,     \* the paths a warning was printed for
    \* _token_fingerprint
    fpc,          \* position: "idle" | "start" | "collected" | "shingled" | "done"
    source,       \* the token stream tokenize.generate_tokens yields for the text
    toks,         \* the normalised token strings
    hashes,       \* the window hashes, one per window
    fingerprint,  \* the returned set
    \* compute_duplication
    dpc,          \* position: "idle" | "outer" | "pairs" | "done" | "raised"
    show_progress,  \* compute_duplication's keyword argument
    progress,     \* the progress bars printed to stderr, in order
    leaves,       \* the flattened leaf nodes, by index from 0: the id of each leaf's text
    di,           \* the outer loop's i
    dj,           \* the inner loop's j
    best_ratio,   \* per leaf, the highest ratio so far, as [num, den]
    best_idx,     \* per leaf, the index of the partner that gave it, or -1
    compared,     \* history: the pairs <<i, j>> SequenceMatcher was run on in this call
    ratios,       \* history: the ratios computed so far: <<text of a, text of b>> -> ratio
    duplication,  \* per leaf, node.metrics.duplication
    first_run,    \* history: the records after the first call
    runs,         \* history: completed calls of compute_duplication
    \* _MetricVisitor, as _analyse_function uses it
    mpc,          \* position: "idle" | "visit" | "done"
    func,         \* the function's syntax tree: nodes [kind, parent], the def first
    pending,      \* the nodes generic_visit has still to be called on, next first
    stmt_count,
    expr_count,
    top_expr_stmts,
    decision_points,
    cyclomatic_complexity   \* Metrics.cyclomatic_complexity (0 before it is set)

treeVars == <<tpc, nodes, file_nodes, fidx, root, lookup, current, pruned>>
gatherVars == <<gpc, paths, pidx, tasks, seen, origins, warnings>>

fpVars == <<fpc, source, toks, hashes, fingerprint>>

dupVars == <<dpc, show_progress, progress, leaves, di, dj, best_ratio, best_idx,
             compared, ratios, duplication, first_run, runs>>

metricVars == <<mpc, func, pending, stmt_count, expr_count, top_expr_stmts,
                decision_points, cyclomatic_complexity>>

vars == <<symlinks, treeVars, gatherVars, fpVars, dupVars, metricVars>>

\* What the actions of one component leave alone.
notTree == <<symlinks, gatherVars, fpVars, dupVars, metricVars>>
notGather == <<symlinks, treeVars, fpVars, dupVars, metricVars>>
notFp == <<symlinks, treeVars, gatherVars, dupVars, metricVars>>
notDup == <<symlinks, treeVars, gatherVars, fpVars, metricVars>>
notMetric == <<symlinks, treeVars, gatherVars, fpVars, dupVars>>

-----------------------------------------------------------------------------
(***************************************************************************)
(* Bounds of the file system that the inputs are drawn from.               *)
(***************************************************************************)
MaxDepth == 2     \* directories below "/" on an input path
MaxFiles == 2     \* file nodes handed to build_tree

DirNames == {"a", "b"}
FileNames == {"m.py", "n.py"}

\* os.getcwd(): the working directory relative paths are resolved against.
Cwd == <<"/", "a">>

RECURSIVE SeqsUpTo(_, _)
SeqsUpTo(S, n) ==
    IF n = 0 THEN {<<>>}
    ELSE LET shorter == SeqsUpTo(S, n - 1)
         IN  shorter \cup {Append(s, x) : s \in {t \in shorter : Len(t) = n - 1}, x \in S}

\* The path strings a file node may carry: absolute ones, and bare file
\* names, which are relative to the working directory.
AbsoluteFilePaths ==
    {<<"/">> \o d \o <<f>> : d \in SeqsUpTo(DirNames, MaxDepth), f \in FileNames}
RelativeFilePaths == {<<f>> : f \in FileNames}
InputFilePaths == AbsoluteFilePaths \cup RelativeFilePaths

-----------------------------------------------------------------------------
(***************************************************************************)
(* pathlib helpers.  A path is the sequence of its parts; Path() is <<>>.  *)
(***************************************************************************)
\* Path.resolve(): make the path absolute and follow a symbolic link to its
\* target (targets are not links themselves).
Resolve(p) ==
    LET absolute == IF Len(p) > 0 /\ p[1] = "/" THEN p ELSE Cwd \o p
    IN  IF absolute \in DOMAIN symlinks THEN symlinks[absolute] ELSE absolute

\* Path.parent
Parent(p) == SubSeq(p, 1, Len(p) - 1)

\* CodeNode(name=..., nodetype=..., path=...): children default to [].
CodeNode(name, nodetype, path) ==
    [name |-> name, nodetype |-> nodetype, path |-> path, children |-> <<>>]

\* CodeNode.is_directory
is_directory(n) == n.nodetype = "directory"

\* CodeNode.has_file_children
has_file_children(nds, n) ==
    \E k \in 1..Len(n.children) : nds[n.children[k]].nodetype = "file"

-----------------------------------------------------------------------------
(***************************************************************************)
(* build_tree                                                              *)
(***************************************************************************)
\* lookup.get(current_path): the node id, or 0 for None.
LookupGetAlwaysNone(lk, cur) == 0
LookupGet(lk, cur) == IF cur \in DOMAIN lk THEN lk[cur] ELSE 0

\* parent_node.children.append(node)
AppendChild(nds, parent, child) ==
    [nds EXCEPT ![parent].children = Append(@, child)]

\* The inner loop "for part in parent_path.parts": returns the heap, the
\* lookup and the parent node after the parts k.. have been walked.
RECURSIVE WalkParts(_, _, _, _, _)
WalkParts(parts, k, nds, lk, parent_node) ==
    IF k > Len(parts)
    THEN [nodes |-> nds, lookup |-> lk, parent_node |-> parent_node]
    ELSE LET current_path == SubSeq(parts, 1, k)
             node == LookupGet(lk, current_path)
         IN  IF node = 0
             THEN LET id == Len(nds) + 1
                      created == Append(nds, CodeNode(parts[k], "directory", current_path))
                  IN  WalkParts(parts, k + 1, AppendChild(created, parent_node, id),
                                lk @@ (current_path :> id), id)
             ELSE WalkParts(parts, k + 1, nds, lk, node)

\* One iteration of "for fnode in file_nodes".
BuildStep ==
    /\ tpc = "build"
    /\ fidx <= Len(file_nodes)
    /\ LET fnode == file_nodes[fidx]
           p == Resolve(nodes[fnode].path)
           w == WalkParts(Parent(p), 1, nodes, lookup, root)
       IN  /\ nodes' = AppendChild(w.nodes, w.parent_node, fnode)
           /\ lookup' = w.lookup
    /\ fidx' = fidx + 1
    /\ UNCHANGED <<tpc, file_nodes, root, current, pruned>>
    /\ UNCHANGED notTree

\* "return root", and main() hands the root to prune_tree.
BuildReturn ==
    /\ tpc = "build"
    /\ fidx > Len(file_nodes)
    /\ tpc' = "prune"
    /\ current' = root
    /\ UNCHANGED <<nodes, file_nodes, fidx, root, lookup, pruned>>
    /\ UNCHANGED notTree

(***************************************************************************)
(* prune_tree                                                              *)
(***************************************************************************)
\* The while condition of prune_tree.
PruneCondition(nds, cur) ==
    /\ is_directory(nds[cur])
    /\ Len(nds[cur].children) = 1
    /\ is_directory(nds[nds[cur].children[1]])
    /\ ~has_file_children(nds, nds[nds[cur].children[1]])

PruneStep ==
    /\ tpc = "prune"
    /\ PruneCondition(nodes, current)
    /\ current' = nodes[current].children[1]
    /\ UNCHANGED <<tpc, nodes, file_nodes, fidx, root, lookup, pruned>>
    /\ UNCHANGED notTree

PruneReturn ==
    /\ tpc = "prune"
    /\ ~PruneCondition(nodes, current)
    /\ pruned' = current
    /\ tpc' = "done"
    /\ UNCHANGED <<nodes, file_nodes, fidx, root, lookup, current>>
    /\ UNCHANGED notTree

\* The state on entry to build_tree: the analysed file nodes exist, the
\* synthetic root has just been created and is alone in the lookup.
TreeInit ==
    \E n \in 0..MaxFiles :
      \E fpaths \in [1..n -> InputFilePaths] :
        /\ nodes = [k \in 1..(n + 1) |->
                      IF k <= n
                      THEN CodeNode(fpaths[k][Len(fpaths[k])], "file", fpaths[k])
                      ELSE CodeNode("root", "directory", Cwd)]
        /\ file_nodes = [k \in 1..n |-> k]
        /\ root = n + 1
        /\ lookup = (<<>> :> (n + 1))
        /\ fidx = 1
        /\ tpc = "build"
        /\ current = 0
        /\ pruned = 0

TreeIdle ==
    /\ tpc = "idle" /\ nodes = <<>> /\ file_nodes = <<>> /\ fidx = 0
    /\ root = 0 /\ lookup = <<>> /\ current = 0 /\ pruned = 0

TreeNext == BuildStep \/ BuildReturn \/ PruneStep \/ PruneReturn

-----------------------------------------------------------------------------
(***************************************************************************)
(* The file system gather_tasks walks: two directory trees, /d and /o, and *)
(* at most one symbolic link, /d/link.py.                                  *)
(***************************************************************************)
MaxPaths == 2     \* raw paths handed to gather_tasks

Directories == {<<"/">>, <<"/", "d">>, <<"/", "d", "sub">>, <<"/", "o">>}
RegularFiles ==
    {<<"/", "d", "m.py">>, <<"/", "d", "sub", "n.py">>,
     <<"/", "o", "real.py">>, <<"/", "o", "notes.txt">>}
LinkPath == <<"/", "d", "link.py">>
\* Where the link may point: a .py file outside the walked directory, one
\* inside it, a file that is no .py file, and a path that does not exist.
LinkTargets ==
    {<<"/", "o", "real.py">>, <<"/", "d", "m.py">>,
     <<"/", "o", "notes.txt">>, <<"/", "o", "gone.py">>}

\* The arguments of the command line.
RawPaths ==
    {<<"/", "d">>, <<"/", "d", "sub">>, <<"/", "d", "m.py">>, LinkPath,
     <<"/", "o", "real.py">>, <<"/", "o", "notes.txt">>, <<"/", "missing">>}

\* Path.is_dir(), Path.is_file() (both follow links), Path.is_symlink().
is_dir(p) == Resolve(p) \in Directories
is_file(p) == Resolve(p) \in RegularFiles
is_symlink(p) == p \in DOMAIN symlinks

\* Whether the entry exists in the file system.
Exists(p) == p \in RegularFiles \/ p \in DOMAIN symlinks

\* Path.name, str.endswith(".py") on it, and Path.suffix.
Name(p) == p[Len(p)]
EndsWithPy(name) == name \in {"m.py", "n.py", "link.py", "real.py", "gone.py"}
Suffix(name) ==
    IF EndsWithPy(name) THEN ".py"
    ELSE IF name = "notes.txt" THEN ".txt" ELSE ""

\* FileTask.__post_init__: whether constructing FileTask(path) succeeds.
FileTaskOk(path) == is_file(path) /\ Suffix(Name(path)) = ".py"

\* What os.scandir finds in a directory: the entries that are no
\* directories (files and links), and the sub-directories.
FilesIn(dir) == {e \in RegularFiles \cup {LinkPath} : Exists(e) /\ Parent(e) = dir}
DirsIn(dir) == {d \in Directories : Len(d) = Len(dir) + 1 /\ Parent(d) = dir}

\* The orders in which a set may be listed.
Orders(S) ==
    {f \in [1..Cardinality(S) -> S] : \A a, b \in 1..Cardinality(S) : f[a] = f[b] => a = b}

\* os.walk(dir), top down: the files of dir, then the walk of each of its
\* sub-directories; the file system decides the order of the files and that
\* of the sub-directories.  The sequences of file entries a walk may yield.
RECURSIVE WalkOrders(_)
RECURSIVE SubWalks(_, _)
WalkOrders(dir) ==
    UNION {{files \o below : below \in SubWalks(dirs, 1)} :
             <<files, dirs>> \in Orders(FilesIn(dir)) \X Orders(DirsIn(dir))}
SubWalks(dirs, k) ==
    IF k > Len(dirs) THEN {<<>>}
    ELSE {first \o rest : <<first, rest>> \in WalkOrders(dirs[k]) \X SubWalks(dirs, k + 1)}

\* The loops "for root, _, files in os.walk(p): for fname in files" over the
\* entries in the order the walk yields them, from the k-th on.  raised is
\* TRUE when FileTask(f) raised ValueError.
RECURSIVE WalkFiles(_, _, _, _, _)
WalkFiles(order, k, tsk, sn, org) ==
    IF k > Len(order)
    THEN [tasks |-> tsk, seen |-> sn, origins |-> org, raised |-> FALSE]
    ELSE LET entry == order[k]
             f == Resolve(entry)
         IN  IF ~EndsWithPy(Name(entry)) THEN WalkFiles(order, k + 1, tsk, sn, org)
             ELSE IF is_symlink(f) THEN WalkFiles(order, k + 1, tsk, sn, org)
             ELSE IF ~FileTaskOk(f)
                  THEN [tasks |-> tsk, seen |-> sn, origins |-> org, raised |-> TRUE]
                  ELSE WalkFiles(order, k + 1, Append(tsk, f), sn \cup {f},
                                 Append(org, [via |-> "walk", entry |-> entry]))

\* "if p in seen: continue"
GatherSkipSeen ==
    /\ gpc = "loop"
    /\ pidx <= Len(paths)
    /\ Resolve(paths[pidx]) \in seen
    /\ pidx' = pidx + 1
    /\ UNCHANGED <<gpc, paths, tasks, seen, origins, warnings>>
    /\ UNCHANGED notGather

\* "if p.is_dir():" and the walk runs to its end.
GatherDirectory ==
    /\ gpc = "loop"
    /\ pidx <= Len(paths)
    /\ LET p == Resolve(paths[pidx])
       IN  /\ p \notin seen
           /\ is_dir(p)
           /\ \E order \in WalkOrders(p) :
                 LET w == WalkFiles(order, 1, tasks, seen, origins)
                 IN  /\ ~w.raised
                     /\ tasks' = w.tasks
                     /\ seen' = w.seen
                     /\ origins' = w.origins
    /\ pidx' = pidx + 1
    /\ UNCHANGED <<gpc, paths, warnings>>
    /\ UNCHANGED notGather

\* "if p.is_dir():" and FileTask(f) raises ValueError, which nothing catches:
\* the files listed before it have been appended.
GatherDirectoryRaises ==
    /\ gpc = "loop"
    /\ pidx <= Len(paths)
    /\ LET p == Resolve(paths[pidx])
       IN  /\ p \notin seen
           /\ is_dir(p)
           /\ \E order \in WalkOrders(p) :
                 LET w == WalkFiles(order, 1, tasks, seen, origins)
                 IN  /\ w.raised
                     /\ tasks' = w.tasks
                     /\ seen' = w.seen
                     /\ origins' = w.origins
    /\ gpc' = "raised"
    /\ UNCHANGED <<paths, pidx, warnings>>
    /\ UNCHANGED notGather

\* "elif p.is_file() and p.suffix == '.py':"
GatherFile ==
    /\ gpc = "loop"
    /\ pidx <= Len(paths)
    /\ LET p == Resolve(paths[pidx])
       IN  /\ p \notin seen
           /\ ~is_dir(p)
           /\ is_file(p) /\ Suffix(Name(p)) = ".py"
           /\ FileTaskOk(p)
           /\ tasks' = Append(tasks, p)
           /\ seen' = seen \cup {p}
           /\ origins' = Append(origins, [via |-> "argument", entry |-> paths[pidx]])
    /\ pidx' = pidx + 1
    /\ UNCHANGED <<gpc, paths, warnings>>
    /\ UNCHANGED notGather

\* "else: print(warning ...)"
GatherWarn ==
    /\ gpc = "loop"
    /\ pidx <= Len(paths)
    /\ LET p == Resolve(paths[pidx])
       IN  /\ p \notin seen
           /\ ~is_dir(p)
           /\ ~(is_file(p) /\ Suffix(Name(p)) = ".py")
           /\ warnings' = warnings \cup {p}
    /\ pidx' = pidx + 1
    /\ UNCHANGED <<gpc, paths, tasks, seen, origins>>
    /\ UNCHANGED notGather

\* "return tasks"
GatherReturn ==
    /\ gpc = "loop"
    /\ pidx > Len(paths)
    /\ gpc' = "done"
    /\ UNCHANGED <<paths, pidx, tasks, seen, origins, warnings>>
    /\ UNCHANGED notGather

FileSystemInit ==
    symlinks \in {<<>>} \cup {(LinkPath :> t) : t \in LinkTargets}

GatherInit ==
    /\ \E n \in 0..MaxPaths : paths \in [1..n -> RawPaths]
    /\ pidx = 1
    /\ tasks = <<>>
    /\ seen = {}
    /\ origins = <<>>
    /\ warnings = {}
    /\ gpc = "loop"

GatherIdle ==
    /\ gpc = "idle" /\ paths = <<>> /\ pidx = 0 /\ tasks = <<>>
    /\ seen = {} /\ origins = <<>> /\ warnings = {}

GatherNext ==
    \/ GatherSkipSeen \/ GatherDirectory \/ GatherDirectoryRaises
    \/ GatherFile \/ GatherWarn \/ GatherReturn

-----------------------------------------------------------------------------
(***************************************************************************)
(* _token_fingerprint.  The text is given by the token stream that         *)
(* tokenize.generate_tokens yields for it: records [type, string].         *)
(***************************************************************************)
W == 5            \* _W
K == 50           \* _K
MIN_TOKS == 25    \* _MIN_TOKS

MaxRep == 8       \* leading copies of the name "a" in a text
MaxVar == 56      \* varied tokens after them

Tok(type, string) == [type |-> type, string |-> string]

\* The i-th varied token of a text: names, operators and literals.  The two
\* variants of a text differ in the values of their literals only.
VariedToken(i, variant) ==
    LET r == ((i * i) \div 7 + (i * i * i) \div 11) % 6
    IN  CASE r = 0 -> Tok("NAME", "b")
          [] r = 1 -> Tok("NAME", "c")
          [] r = 2 -> Tok("OP", "+")
          [] r = 3 -> Tok("OP", "=")
          [] r = 4 -> Tok("NUMBER", IF variant = 0 THEN "42" ELSE "99")
          [] r = 5 -> Tok("STRING", IF variant = 0 THEN "'x'" ELSE "'y'")

\* The token stream of a text of rep names "a" and nvar varied tokens on one
\* logical line, a blank between two tokens and a line break at the end.
\* Variant 1 is indented by four blanks under the comment line "# c".
TokenStream(rep, nvar, variant) ==
    LET visible == [i \in 1..(rep + nvar) |->
                      IF i <= rep THEN Tok("NAME", "a") ELSE VariedToken(i - rep, variant)]
    IN  IF variant = 0
        THEN visible \o <<Tok("NEWLINE", "\n"), Tok("ENDMARKER", "")>>
        ELSE <<Tok("COMMENT", "# c"), Tok("NL", "\n"), Tok("INDENT", "    ")>>
             \o visible
             \o <<Tok("NEWLINE", "\n"), Tok("DEDENT", ""), Tok("ENDMARKER", "")>>

\* "if tok.type in (INDENT, DEDENT, NEWLINE, NL, COMMENT): continue"
Skipped(tok) == tok.type \in {"INDENT", "DEDENT", "NEWLINE", "NL", "COMMENT"}

\* Canonicalise literals so "42" and "99" look the same.
Canonical(tok) ==
    IF tok.type = "NUMBER" THEN "0"
    ELSE IF tok.type = "STRING" THEN "STR"
    ELSE tok.string

\* The loop over the token stream: the list toks.
Kept(tok) == ~Skipped(tok)
Collect(src) ==
    LET kept == SelectSeq(src, Kept)
    IN  [k \in 1..Len(kept) |-> Canonical(kept[k])]

\* window = " ".join(toks[i : i + _W])
RECURSIVE Join(_, _)
Join(window, k) ==
    IF k = 1 THEN window[1] ELSE Join(window, k - 1) \o " " \o window[k]

\* hashlib.md5(window.encode()).hexdigest() of every window of the texts of
\* the model, as md5 computes it: the number the first seven hexadecimal
\* digits of the digest denote.  The digests of two of these windows differ
\* within these digits, and digests compare as these numbers do.
Md5Table ==
    "b b = c " :> 100828484 @@ "b b = c +" :> 71531098 @@ "b = c + " :> 192979125 @@
    "b = c + b" :> 226210180 @@ "= c + b " :> 209702911 @@ "= c + b +" :> 46629834 @@
    "c + b + " :> 176587273 @@ "c + b + c" :> 110865960 @@ "+ b + c " :> 10653298 @@
    "+ b + c STR" :> 58114175 @@ "b + c STR " :> 232116192 @@ "b + c STR +" :> 140300350 @@
    "+ c STR + " :> 70598158 @@ "+ c STR + b" :> 70592168 @@ "c STR + b " :> 165050139 @@
    "c STR + b =" :> 11181956 @@ "STR + b = " :> 34334619 @@ "STR + b = c" :> 60189718 @@
    "+ b = c " :> 62845635 @@ "+ b = c c" :> 35732418 @@ "b = c c " :> 95423845 @@
    "b = c c +" :> 90239882 @@ "= c c + " :> 176186870 @@ "= c c + b" :> 21550511 @@
    "c c + b " :> 15773365 @@ "c c + b c" :> 37727952 @@ "c + b c " :> 129321548 @@
    "c + b c b" :> 9981527 @@ "+ b c b " :> 65161830 @@ "+ b c b +" :> 250132402 @@
    "b c b + " :> 212561483 @@ "b c b + 0" :> 50696271 @@ "c b + 0 " :> 212674921 @@
    "c b + 0 0" :> 44329286 @@ "b + 0 0 " :> 144963468 @@ "b + 0 0 STR" :> 247104851 @@
    "+ 0 0 STR " :> 121352829 @@ "+ 0 0 STR STR" :> 73333767 @@ "0 0 STR STR " :> 180465020 @@
    "0 0 STR STR b" :> 11673555 @@ "0 STR STR b " :> 169461509 @@ "0 STR STR b =" :> 56529359 @@
    "STR STR b = " :> 159908291 @@ "STR STR b = c" :> 76135429 @@ "STR b = c " :> 173004865 @@
    "STR b = c =" :> 130576639 @@ "b = c = " :> 16157217 @@ "b = c = c" :> 31663446 @@
    "= c = c " :> 19370123 @@ "= c = c =" :> 13676921 @@ "c = c = " :> 117560641 @@
    "c = c = +" :> 152633643 @@ "= c = + " :> 153628551 @@ "= c = + c" :> 40782001 @@
    "c = + c " :> 174906286 @@ "c = + c 0" :> 236788406 @@ "= + c 0 " :> 187471878 @@
    "= + c 0 +" :> 63065842 @@ "+ c 0 + " :> 175300094 @@ "+ c 0 + b" :> 209260275 @@
    "c 0 + b " :> 138104685 @@ "c 0 + b 0" :> 129104229 @@ "0 + b 0 " :> 79081597 @@
    "0 + b 0 0" :> 72120655 @@ "+ b 0 0 " :> 60391441 @@ "+ b 0 0 STR" :> 17083531 @@
    "b 0 0 STR " :> 88184069 @@ "b 0 0 STR 0" :> 204499751 @@ "0 0 STR 0 " :> 265661687 @@
    "0 0 STR 0 STR" :> 26538836 @@ "0 STR 0 STR " :> 148869686 @@ "0 STR 0 STR 0" :> 7991239 @@
    "STR 0 STR 0 " :> 93684581 @@ "STR 0 STR 0 c" :> 182256834 @@ "0 STR 0 c " :> 99934118 @@
    "0 STR 0 c =" :> 192948754 @@ "STR 0 c = " :> 112734835 @@ "STR 0 c = =" :> 205454423 @@
    "0 c = = " :> 265825323 @@ "0 c = = 0" :> 32030278 @@ "c = = 0 " :> 240588347 @@
    "c = = 0 STR" :> 159312723 @@ "= = 0 STR " :> 235468775 @@ "= = 0 STR b" :> 206455474 @@
    "= 0 STR b " :> 10915217 @@ "= 0 STR b =" :> 104478186 @@ "0 STR b = " :> 219097354 @@
    "0 STR b = +" :> 67531234 @@ "STR b = + " :> 66576332 @@ "STR b = + 0" :> 191824747 @@
    "b = + 0 " :> 210229188 @@ "b = + 0 +" :> 82258450 @@ "= + 0 + " :> 145045226 @@
    "= + 0 + 0" :> 102585510 @@ "+ 0 + 0 " :> 111562564 @@ "+ 0 + 0 0" :> 163493033 @@
    "0 + 0 0 " :> 20458601 @@ "0 + 0 0 =" :> 69372346 @@ "+ 0 0 = " :> 99091499 @@
    "+ 0 0 = b" :> 65489212 @@ "0 0 = b " :> 263641899 @@ "0 0 = b STR" :> 983925 @@
    "0 = b STR " :> 165327156 @@ "0 = b STR =" :> 109742659 @@ "= b STR = " :> 132799044 @@
    "= b STR = c" :> 126665095 @@ "b STR = c " :> 12825924 @@ "b STR = c c" :> 115959080 @@
    "STR = c c " :> 16349715 @@ "STR = c c =" :> 154799887 @@ "= c c = " :> 55480137 @@
    "= c c = +" :> 85534406 @@ "c c = + " :> 210632542 @@ "a b b = " :> 220983162 @@
    "a b b = c" :> 245364537 @@ "a a b b " :> 129784516 @@ "a a b b =" :> 257514647 @@
    "a a a b " :> 172424472 @@ "a a a b b" :> 267578817 @@ "a a a a " :> 4122222 @@
    "a a a a b" :> 177393636 @@ "a a a a a" :> 200286440 @@ "c c = + =" :> 79917688 @@
    "c = + = =" :> 161301426 @@ "= + = = b" :> 251213525 @@ "+ = = b +" :> 84967033 @@
    "= = b + +" :> 228106300 @@ "= b + + 0" :> 13782360 @@ "b + + 0 STR" :> 117343797 @@
    "+ + 0 STR b" :> 244731945 @@ "+ 0 STR b 0" :> 7438197 @@ "0 STR b 0 =" :> 91921661 @@
    "STR b 0 = STR" :> 157735366 @@ "b 0 = STR =" :> 96025321 @@ "0 = STR = b" :> 119256205 @@
    "= STR = b b" :> 255496067 @@ "STR = b b STR" :> 264534376 @@ "= b b STR =" :> 198659197 @@
    "b b STR = +" :> 182197619 @@ "b STR = + b" :> 114486774 @@ "STR = + b 0" :> 179852784 @@
    "= + b 0 STR" :> 208301762 @@ "+ b 0 STR c" :> 125806403 @@ "b 0 STR c b" :> 244472609 @@
    "0 STR c b +" :> 151850524 @@ "STR c b + +" :> 61450142 @@ "c b + + STR" :> 243663583 @@
    "b + + STR c" :> 188839311 @@ "+ + STR c +" :> 148729823 @@ "+ STR c + 0" :> 238718211 @@
    "STR c + 0 STR" :> 126732817 @@ "c + 0 STR c" :> 27095192 @@ "+ 0 STR c " :> 94003135 @@
    "+ 0 STR c STR" :> 123920300 @@ "0 STR c STR 0" :> 48648113 @@ "STR c STR 0 b" :> 139386719 @@
    "c STR 0 b STR" :> 195074948 @@ "STR 0 b STR +" :> 156562066 @@ "0 b STR + +" :> 54684860 @@
    "b STR + + +" :> 224434576 @@ "STR + + + b" :> 44815255 @@ "+ + + b STR" :> 219701524 @@
    "+ + b STR =" :> 266534266 @@ "+ b STR = +" :> 928697 @@ "b STR = + =" :> 14761785 @@
    "STR = + = STR" :> 255483949 @@ "= + = STR STR" :> 122448185 @@ "+ = STR STR c" :> 97146131 @@
    "= STR STR c c" :> 90333963 @@ "STR STR c c 0" :> 246038867 @@ "STR c c 0 c" :> 152920047 @@
    "c c 0 c +" :> 209043158 @@ "c 0 c + 0" :> 62695945 @@ "0 c + 0 b" :> 88126060 @@
    "c + 0 b +" :> 252550572 @@ "+ 0 b + b" :> 39518282 @@ "0 b + b STR" :> 58935421 @@
    "b + b STR +" :> 111665238 @@ "+ b STR + c" :> 221868479 @@ "b STR + c 0" :> 22302973 @@
    "STR + c 0 STR" :> 241485871 @@ "+ c 0 STR STR" :> 171660147 @@ "c 0 STR STR =" :> 94774225 @@
    "0 STR STR = +" :> 6282610 @@ "STR STR = + c" :> 248682030 @@ "STR = + c b" :> 183691635 @@
    "= + c b c" :> 198503540 @@ "+ c b c 0" :> 128648288 @@ "c b c 0 0" :> 206942542 @@
    "b c 0 0 b" :> 42867403 @@ "c 0 0 b b" :> 82200276 @@ "0 0 b b 0" :> 187860541 @@
    "0 b b 0 c" :> 156382875 @@ "b b 0 c +" :> 160645645 @@ "b 0 c + STR" :> 177932480 @@
    "0 c + STR c" :> 128899730 @@ "c + STR c =" :> 54385382 @@ "+ STR c = c" :> 160405224 @@
    "STR c = c c" :> 22392134 @@ "c = c c 0" :> 159306265 @@ "= c c 0 =" :> 242547865 @@
    "c c 0 = c" :> 248256767 @@ "c 0 = c +" :> 153277462 @@ "0 = c + +" :> 13583099 @@
    "= c + + b" :> 170009711 @@ "c + + b b" :> 59670198 @@ "+ + b b STR" :> 117397957 @@
    "+ b b STR 0" :> 249371323 @@ "b b STR 0 b" :> 126021102 @@ "b STR 0 b =" :> 208108179 @@
    "STR 0 b = =" :> 200914856 @@ "0 b = = STR" :> 262908525 @@ "b = = STR b" :> 109193573 @@
    "= = STR b 0" :> 263778616 @@ "= STR b 0 c" :> 261469264 @@ "STR b 0 c =" :> 88330710 @@
    "b 0 c = b" :> 141993040 @@ "0 c = b +" :> 234367534 @@ "c = b + 0" :> 164585053 @@
    "= b + 0 =" :> 62817422 @@ "b + 0 = =" :> 222526610 @@ "+ 0 = = b" :> 263062243 @@
    "0 = = b b" :> 221837285 @@ "= = b b 0" :> 58045058 @@ "= b b 0 STR" :> 223911077 @@
    "b b 0 STR STR" :> 34997306 @@ "b 0 STR STR 0" :> 1516472 @@ "0 STR STR 0 0" :> 60599128 @@
    "STR STR 0 0 =" :> 66369417 @@ "STR 0 0 = =" :> 110173080 @@ "0 0 = = STR" :> 164118884 @@
    "0 = = STR +" :> 247243423 @@ "= = STR + +" :> 1725857 @@ "= STR + + STR" :> 223300185 @@
    "STR + + STR b" :> 217363683 @@ "+ + STR b 0" :> 222258475 @@ "+ STR b 0 +" :> 222391246 @@
    "STR b 0 + 0" :> 83414006 @@ "b 0 + 0 c" :> 145508922 @@ "0 + 0 c =" :> 38151455 @@
    "+ 0 c = b" :> 227485679 @@ "0 c = b STR" :> 160046095 @@ "c = b STR STR" :> 106680914 @@
    "= b STR STR =" :> 197803822 @@ "b STR STR = =" :> 16126918 @@ "STR STR = = c" :> 163134525 @@
    "STR = = c +" :> 87701043 @@ "= = c + =" :> 14185768 @@ "= c + = +" :> 13920362 @@
    "c + = + +" :> 13100856 @@ "+ = + + +" :> 254863812 @@ "= + + + +" :> 161090726 @@
    "+ + + + 0" :> 39198841 @@ "+ + + 0 c" :> 153590816 @@ "+ + 0 c +" :> 195211138 @@
    "+ 0 c + STR" :> 218295253 @@ "0 c + STR b" :> 51129220 @@ "c + STR b STR" :> 60502459 @@
    "+ STR b STR =" :> 90447777 @@ "STR b STR = STR" :> 230179031 @@ "b STR = STR +" :> 112287443 @@
    "STR = STR + STR" :> 161660592 @@ "= STR + STR +" :> 205171612 @@ "STR + STR + " :> 99505764

Md5Hex(window) == Md5Table[Join(window, Len(window))]

\* "make shingles": one hash per window of _W tokens, step 1.
Shingles(t) == [i \in 1..(Len(t) - W + 1) |-> Md5Hex(SubSeq(t, i, i + W - 1))]

\* sorted(hashes): the entries below the first one, sorted, then the entries
\* equal to it, then those above it, sorted.
RECURSIVE Sorted(_)
Sorted(h) ==
    IF Len(h) <= 1 THEN h
    ELSE LET pivot == h[1]
             Below(x) == x < pivot
             Same(x) == x = pivot
             Above(x) == x > pivot
         IN  Sorted(SelectSeq(h, Below)) \o SelectSeq(h, Same) \o Sorted(SelectSeq(h, Above))

\* set(sorted(hashes)[:_K])
WinnowDistinctFirst(h) ==
    LET distinct == {h[i] : i \in 1..Len(h)}
    IN  {x \in distinct : Cardinality({y \in distinct : y < x}) < K}
Winnow(h) ==
    LET s == Sorted(h)
        n == IF Len(s) < K THEN Len(s) ELSE K
    IN  {s[i] : i \in 1..n}

\* _token_fingerprint as a function of the token stream.
TokenFingerprint(src) ==
    LET t == Collect(src)
    IN  IF Len(t) < MIN_TOKS THEN {} ELSE Winnow(Shingles(t))

\* Lines 72-89: the tokens are collected.
FpCollect ==
    /\ fpc = "start"
    /\ toks' = Collect(source)
    /\ fpc' = "collected"
    /\ UNCHANGED <<source, hashes, fingerprint>>
    /\ UNCHANGED notFp

\* "if len(toks) < _MIN_TOKS: return set()"
FpTooShort ==
    /\ fpc = "collected"
    /\ Len(toks) < MIN_TOKS
    /\ fingerprint' = {}
    /\ fpc' = "done"
    /\ UNCHANGED <<source, toks, hashes>>
    /\ UNCHANGED notFp

\* Lines 94-98: the windows are hashed.
FpShingle ==
    /\ fpc = "collected"
    /\ ~(Len(toks) < MIN_TOKS)
    /\ hashes' = Shingles(toks)
    /\ fpc' = "shingled"
    /\ UNCHANGED <<source, toks, fingerprint>>
    /\ UNCHANGED notFp

\* "return set(sorted(hashes)[:_K])"
FpWinnow ==
    /\ fpc = "shingled"
    /\ fingerprint' = Winnow(hashes)
    /\ fpc' = "done"
    /\ UNCHANGED <<source, toks, hashes>>
    /\ UNCHANGED notFp

FpInit ==
    /\ \E rep \in 0..MaxRep, nvar \in 0..MaxVar, variant \in 0..1 :
          /\ rep + nvar >= 1
          /\ source = TokenStream(rep, nvar, variant)
    /\ toks = <<>>
    /\ hashes = <<>>
    /\ fingerprint = {}
    /\ fpc = "start"

FpIdle ==
    /\ fpc = "idle" /\ source = <<>> /\ toks = <<>> /\ hashes = <<>>
    /\ fingerprint = {}

FpNext == FpCollect \/ FpTooShort \/ FpShingle \/ FpWinnow

-----------------------------------------------------------------------------
(***************************************************************************)
(* compute_duplication.  A leaf is given by the id of its text in          *)
(* TextPool; id 0 is a node without children that is no function (a class  *)
(* without methods, a file without definitions): it has no source, no      *)
(* metrics and the default, empty fingerprint.                             *)
(***************************************************************************)
JACCARD_MIN_NUM == 3      \* _JACCARD_MIN = 0.3, as a fraction
JACCARD_MIN_DEN == 10

MaxLeaves == 3    \* leaves of the analysed files
MaxRuns == 2      \* calls of compute_duplication on the same nodes

\* The texts of the functions: one too short to fingerprint; a function, the
\* same with other literals, a longer one that starts alike, a long one and
\* a very long one.
TextPool ==
    <<[rep |-> 0, nvar |-> 10, variant |-> 0],
      [rep |-> 0, nvar |-> 30, variant |-> 0],
      [rep |-> 0, nvar |-> 30, variant |-> 1],
      [rep |-> 0, nvar |-> 40, variant |-> 0],
      [rep |-> 0, nvar |-> 90, variant |-> 0],
      [rep |-> 0, nvar |-> 200, variant |-> 0]>>

\* node._fingerprint, set by _analyse_function (line 333).
TextFingerprint(t) ==
    TokenFingerprint(TokenStream(TextPool[t].rep, TextPool[t].nvar, TextPool[t].variant))
PoolFingerprint ==
    <<TextFingerprint(1), TextFingerprint(2), TextFingerprint(3),
      TextFingerprint(4), TextFingerprint(5), TextFingerprint(6)>>
Fingerprint(t) == IF t = 0 THEN {} ELSE PoolFingerprint[t]

\* other.qualname or other.name
QualNameOrName(t) ==
    CASE t = 0 -> "Empty" [] t = 1 -> "tiny" [] t = 2 -> "load"
      [] t = 3 -> "A.load" [] t = 4 -> "load_all" [] t = 5 -> "B.run"
      [] t = 6 -> "main"

\* other.metrics.lines if other.metrics else 0
LinesOf(t) == IF t = 0 THEN 0 ELSE 1 + TextPool[t].variant

\* SequenceMatcher(None, a, b) on the texts of TextPool, as difflib computes
\* it: twice the number of matched characters, and len(a) + len(b); row a,
\* column b.
MatchTable ==
    <<
      <<<<44, 44>>, <<44, 90>>, <<42, 98>>, <<44, 119>>, <<44, 243>>, <<44, 522>>>>,
      <<<<44, 90>>, <<136, 136>>, <<122, 144>>, <<136, 165>>, <<136, 289>>, <<136, 568>>>>,
      <<<<42, 98>>, <<122, 144>>, <<152, 152>>, <<122, 173>>, <<6, 297>>, <<2, 576>>>>,
      <<<<44, 119>>, <<136, 165>>, <<122, 173>>, <<194, 194>>, <<194, 318>>, <<194, 597>>>>,
      <<<<44, 243>>, <<136, 289>>, <<122, 297>>, <<194, 318>>, <<442, 442>>, <<442, 721>>>>,
      <<<<44, 522>>, <<136, 568>>, <<122, 576>>, <<194, 597>>, <<442, 721>>, <<1000, 1000>>>>
    >>

\* seq_matcher.ratio(): 2.0 * matches / (len(a) + len(b)), as a fraction.
SequenceMatcherRatio(a, b) ==
    [num |-> MatchTable[a][b][1], den |-> MatchTable[a][b][2]]

Zero == [num |-> 0, den |-> 1]

\* Comparison of two floats given as fractions.
Greater(r, q) == r.num * q.den > q.num * r.den

\* The sign of float(r) - r for a fraction 0 < r < 1: the quotient is
\* developed bit by bit, rem the remainder and last the bit before it; after
\* the 53 significant bits of a double the rest decides, a tie going to the
\* even mantissa.
RECURSIVE FloatError(_, _, _, _)
FloatError(rem, den, bits, last) ==
    IF bits = 53
    THEN IF rem = 0 THEN 0
         ELSE IF 2 * rem > den THEN 1
         ELSE IF 2 * rem < den THEN -1
         ELSE IF last = 1 THEN 1 ELSE -1
    ELSE LET bit == IF 2 * rem >= den THEN 1 ELSE 0
         IN  FloatError(2 * rem - bit * den, den,
                        IF bits = 0 /\ bit = 0 THEN 0 ELSE bits + 1, bit)

\* round(x, 3) of the float x = num / den, in thousandths: the nearest
\* thousandth to the value the float holds; a float that lies exactly
\* between two goes to the even one.
Round3(r) ==
    LET whole == (1000 * r.num) \div r.den
        rest == (1000 * r.num) % r.den
        err == IF r.num = 0 \/ r.num = r.den THEN 0
               ELSE FloatError(r.num, r.den, 0, 0)
    IN  IF 2 * rest < r.den THEN whole
        ELSE IF 2 * rest > r.den THEN whole + 1
        ELSE IF err > 0 THEN whole + 1
        ELSE IF err < 0 THEN whole
        ELSE IF whole % 2 = 0 THEN whole ELSE whole + 1

\* metrics.duplication = None
None == [score |-> -1, other |-> "", lines_other |-> 0]

\* Duplication(score=..., other=..., lines_other=...)
Duplication(score, other, lines_other) ==
    [score |-> score, other |-> other, lines_other |-> lines_other]

\* len(leaves)
NumLeaves == Cardinality(DOMAIN leaves)

fps(i) == Fingerprint(leaves[i])

\* "if not fps[i] or not fps[j]"
EitherEmpty(i, j) == fps(i) = {} \/ fps(j) = {}

\* "if jacc < _JACCARD_MIN", with jacc = inter / union
BelowJaccardMinLoose(inter, union) ==
    IF union # 0 THEN JACCARD_MIN_DEN * inter < (JACCARD_MIN_NUM - 1) * union ELSE TRUE
BelowJaccardMin(inter, union) ==
    IF union # 0 THEN JACCARD_MIN_DEN * inter < JACCARD_MIN_NUM * union ELSE TRUE

GateSkips(i, j) ==
    BelowJaccardMin(Cardinality(fps(i) \cap fps(j)), Cardinality(fps(i) \cup fps(j)))

\* "if ratio > best_ratio[...]"
ReplacesOnTie(ratio, best) == ~Greater(best, ratio)
Replaces(ratio, best) == Greater(ratio, best)

\* "if ratio > best_ratio[i]: best_ratio[i], best_idx[i] = ratio, j"
UpdateI(acc, ratio, i, j) ==
    IF Replaces(ratio, acc.best_ratio[i])
    THEN [best_ratio |-> [acc.best_ratio EXCEPT ![i] = ratio],
          best_idx |-> [acc.best_idx EXCEPT ![i] = j]]
    ELSE acc

\* "if ratio > best_ratio[j]: best_ratio[j], best_idx[j] = ratio, i"
UpdateJSkipped(acc, ratio, i, j) == acc
UpdateJ(acc, ratio, i, j) ==
    IF Replaces(ratio, acc.best_ratio[j])
    THEN [best_ratio |-> [acc.best_ratio EXCEPT ![j] = ratio],
          best_idx |-> [acc.best_idx EXCEPT ![j] = i]]
    ELSE acc

\* _print_progress(cur, total): the bar printed, "filled" of its 20
\* places filled, and whether the line is ended.  The division raises
\* ZeroDivisionError when total is 0.
bar_len == 20
PrintProgressRaises(cur, total) == total = 0
PrintProgress(cur, total) ==
    [filled |-> (bar_len * cur) \div total, current |-> cur,
     total |-> total, newline |-> cur = total]

\* "for i in range(len(leaves)): if show_progress: _print_progress(i + 1, ...)"
DupOuter ==
    /\ dpc = "outer"
    /\ di < NumLeaves
    /\ progress' = IF show_progress
                   THEN Append(progress, PrintProgress(di + 1, NumLeaves))
                   ELSE progress
    /\ dj' = di + 1
    /\ dpc' = "pairs"
    /\ UNCHANGED <<show_progress, leaves, di, best_ratio, best_idx, compared, ratios,
                   duplication, first_run, runs>>
    /\ UNCHANGED notDup

InPairLoop ==
    /\ dpc = "pairs"
    /\ di < NumLeaves
    /\ dj < NumLeaves

\* "if not fps[i] or not fps[j]: continue"
DupSkipEmpty ==
    /\ InPairLoop
    /\ EitherEmpty(di, dj)
    /\ dj' = dj + 1
    /\ UNCHANGED <<dpc, show_progress, progress, leaves, di, best_ratio, best_idx,
                   compared, ratios, duplication, first_run, runs>>
    /\ UNCHANGED notDup

\* "if jacc < _JACCARD_MIN: continue"
DupSkipJaccard ==
    /\ InPairLoop
    /\ ~EitherEmpty(di, dj)
    /\ GateSkips(di, dj)
    /\ dj' = dj + 1
    /\ UNCHANGED <<dpc, show_progress, progress, leaves, di, best_ratio, best_idx,
                   compared, ratios, duplication, first_run, runs>>
    /\ UNCHANGED notDup

\* Lines 139-145: SequenceMatcher runs on the two sources, and both leaves
\* are updated with its ratio.
DupCompare ==
    /\ InPairLoop
    /\ ~EitherEmpty(di, dj)
    /\ ~GateSkips(di, dj)
    /\ LET key == <<leaves[di], leaves[dj]>>
           ratio == SequenceMatcherRatio(leaves[di], leaves[dj])
           acc == UpdateJ(UpdateI([best_ratio |-> best_ratio, best_idx |-> best_idx],
                                  ratio, di, dj),
                          ratio, di, dj)
       IN  /\ ratios' = IF key \in DOMAIN ratios THEN ratios
                        ELSE ratios @@ (key :> ratio)
           /\ best_ratio' = acc.best_ratio
           /\ best_idx' = acc.best_idx
    /\ compared' = compared \cup {<<di, dj>>}
    /\ dj' = dj + 1
    /\ UNCHANGED <<dpc, show_progress, progress, leaves, di, duplication, first_run, runs>>
    /\ UNCHANGED notDup

\* The inner loop is exhausted: the outer loop takes the next i.
DupNextI ==
    /\ dpc = "pairs"
    /\ dj >= NumLeaves
    /\ di' = di + 1
    /\ dpc' = "outer"
    /\ UNCHANGED <<show_progress, progress, leaves, dj, best_ratio, best_idx, compared,
                   ratios, duplication, first_run, runs>>
    /\ UNCHANGED notDup

\* Lines 148-149 with no leaves: _print_progress(0, 0) raises
\* ZeroDivisionError, which compute_duplication does not catch.
DupProgressRaises ==
    /\ dpc = "outer"
    /\ di >= NumLeaves
    /\ show_progress
    /\ PrintProgressRaises(NumLeaves, NumLeaves)
    /\ dpc' = "raised"
    /\ UNCHANGED <<show_progress, progress, leaves, di, dj, best_ratio, best_idx,
                   compared, ratios, duplication, first_run, runs>>
    /\ UNCHANGED notDup

\* Lines 147-161: the last progress bar, then "write the result back into
\* metrics".
DupWriteBack ==
    /\ dpc = "outer"
    /\ di >= NumLeaves
    /\ ~(show_progress /\ PrintProgressRaises(NumLeaves, NumLeaves))
    /\ progress' = IF show_progress
                   THEN Append(progress, PrintProgress(NumLeaves, NumLeaves))
                   ELSE progress
    /\ duplication' =
          [idx \in DOMAIN leaves |->
              IF best_idx[idx] = -1 THEN duplication[idx]
              ELSE Duplication(Round3(best_ratio[idx]),
                               QualNameOrName(leaves[best_idx[idx]]),
                               LinesOf(leaves[best_idx[idx]]))]
    /\ first_run' = IF runs = 0 THEN duplication' ELSE first_run
    /\ runs' = runs + 1
    /\ dpc' = "done"
    /\ UNCHANGED <<show_progress, leaves, di, dj, best_ratio, best_idx, compared, ratios>>
    /\ UNCHANGED notDup

\* compute_duplication is called again on the same nodes in the same order.
DupRunAgain ==
    /\ dpc = "done"
    /\ runs < MaxRuns
    /\ best_ratio' = [idx \in DOMAIN leaves |-> Zero]
    /\ best_idx' = [idx \in DOMAIN leaves |-> -1]
    /\ compared' = {}
    /\ di' = 0
    /\ dj' = 0
    /\ dpc' = "outer"
    /\ UNCHANGED <<show_progress, progress, leaves, ratios, duplication, first_run, runs>>
    /\ UNCHANGED notDup

DupInit ==
    /\ \E n \in 0..MaxLeaves : leaves \in [0..(n - 1) -> 0..Len(TextPool)]
    /\ best_ratio = [idx \in DOMAIN leaves |-> Zero]
    /\ best_idx = [idx \in DOMAIN leaves |-> -1]
    /\ duplication = [idx \in DOMAIN leaves |-> None]
    /\ first_run = [idx \in DOMAIN leaves |-> None]
    /\ compared = {}
    /\ ratios = <<>>
    /\ di = 0
    /\ dj = 0
    /\ runs = 0
    /\ show_progress \in BOOLEAN
    /\ progress = <<>>
    /\ dpc = "outer"

DupIdle ==
    /\ dpc = "idle" /\ leaves = <<>> /\ di = 0 /\ dj = 0 /\ best_ratio = <<>>
    /\ best_idx = <<>> /\ compared = {} /\ ratios = <<>> /\ duplication = <<>>
    /\ first_run = <<>> /\ runs = 0 /\ show_progress = FALSE /\ progress = <<>>

DupNext ==
    \/ DupOuter \/ DupSkipEmpty \/ DupSkipJaccard \/ DupCompare \/ DupNextI
    \/ DupProgressRaises \/ DupWriteBack \/ DupRunAgain

-----------------------------------------------------------------------------
(***************************************************************************)
(* _MetricVisitor.  The syntax tree of the function is a sequence of nodes *)
(* [kind, parent], the FunctionDef first; nodes of the kinds no counter    *)
(* looks at (Pass, arguments, withitem, Load, ...) are left out.           *)
(***************************************************************************)
MaxConstructs == 2    \* statements written into the function body

\* _MetricVisitor.STMTS, .DECISIONS, and the classes ast.Expr and ast.expr,
\* over the node kinds of the model.
STMTS == {"If", "For", "While", "With", "Try", "FunctionDef", "ExceptHandler", "Return"}
DECISIONS == {"If", "For", "While", "Try", "ExceptHandler", "With", "BoolOp"}
ExprStatements == {"Expr"}
Expressions == {"BoolOp", "Name"}

\* isinstance(node, self.DECISIONS)
IsDecisionButTry(kind) == kind \in DECISIONS \ {"Try"}
IsDecision(kind) == kind \in DECISIONS

AstNode(kind, parent) == [kind |-> kind, parent |-> parent]

\* The statements a body may hold, and the nodes each one adds below its
\* parent p to the tree t.
Constructs ==
    {"if", "if-and", "for", "while", "try-except", "try-finally", "except",
     "with", "return", "expr"}

BodyHolders == {"FunctionDef", "If", "For", "While", "Try", "ExceptHandler", "With"}

AddConstruct(t, c, p) ==
    LET n == Len(t)
    IN  CASE c = "if" -> t \o <<AstNode("If", p), AstNode("Name", n + 1)>>
          [] c = "if-and" -> t \o <<AstNode("If", p), AstNode("BoolOp", n + 1),
                                    AstNode("Name", n + 2), AstNode("Name", n + 2)>>
          [] c = "for" -> t \o <<AstNode("For", p), AstNode("Name", n + 1),
                                 AstNode("Name", n + 1)>>
          [] c = "while" -> t \o <<AstNode("While", p), AstNode("Name", n + 1)>>
          [] c = "try-except" -> t \o <<AstNode("Try", p), AstNode("ExceptHandler", n + 1)>>
          [] c = "try-finally" -> t \o <<AstNode("Try", p)>>
          [] c = "except" -> t \o <<AstNode("ExceptHandler", p)>>
          [] c = "with" -> t \o <<AstNode("With", p), AstNode("Name", n + 1)>>
          [] c = "return" -> t \o <<AstNode("Return", p)>>
          [] c = "expr" -> t \o <<AstNode("Expr", p), AstNode("Name", n + 1)>>

\* An except clause belongs to a try statement; any other statement to a body.
MayHold(t, c, p) ==
    IF c = "except" THEN t[p].kind = "Try" ELSE t[p].kind \in BodyHolders

\* The functions of at most n statements.
RECURSIVE Functions(_)
Functions(n) ==
    IF n = 0 THEN {<<AstNode("FunctionDef", 0)>>}
    ELSE LET smaller == Functions(n - 1)
         IN  smaller \cup
             UNION {{AddConstruct(t, c, p) : p \in {q \in 1..Len(t) : MayHold(t, c, q)}} :
                      <<t, c>> \in smaller \X Constructs}

\* ast.iter_child_nodes(node), in order.
ChildNodes(t, node) ==
    LET IsChild(k) == t[k].parent = node
    IN  SelectSeq([k \in 1..Len(t) |-> k], IsChild)

Bump(counter, hit) == IF hit THEN counter + 1 ELSE counter

\* generic_visit(node): the four counters, then the children are visited.
MetricVisit ==
    /\ mpc = "visit"
    /\ pending # <<>>
    /\ LET node == Head(pending)
           kind == func[node].kind
       IN  /\ stmt_count' = Bump(stmt_count, kind \in STMTS)
           /\ decision_points' = Bump(decision_points, IsDecision(kind))
           /\ top_expr_stmts' = Bump(top_expr_stmts, kind \in ExprStatements)
           /\ expr_count' = Bump(expr_count, kind \in Expressions)
           /\ pending' = ChildNodes(func, node) \o Tail(pending)
    /\ UNCHANGED <<mpc, func, cyclomatic_complexity>>
    /\ UNCHANGED notMetric

\* visitor.visit(func) has returned; _analyse_function reads the property
\* cyclomatic_complexity: decision_points + 1.
MetricReturn ==
    /\ mpc = "visit"
    /\ pending = <<>>
    /\ cyclomatic_complexity' = decision_points + 1
    /\ mpc' = "done"
    /\ UNCHANGED <<func, pending, stmt_count, expr_count, top_expr_stmts, decision_points>>
    /\ UNCHANGED notMetric

\* _MetricVisitor() has been constructed and visit(func) is about to run.
MetricInit ==
    /\ func \in Functions(MaxConstructs)
    /\ pending = <<1>>
    /\ stmt_count = 0
    /\ expr_count = 0
    /\ top_expr_stmts = 0
    /\ decision_points = 0
    /\ cyclomatic_complexity = 0
    /\ mpc = "visit"

MetricIdle ==
    /\ mpc = "idle" /\ func = <<>> /\ pending = <<>> /\ stmt_count = 0
    /\ expr_count = 0 /\ top_expr_stmts = 0 /\ decision_points = 0
    /\ cyclomatic_complexity = 0

MetricNext == MetricVisit \/ MetricReturn

-----------------------------------------------------------------------------
(***************************************************************************)
(* The specifications: one per function of the program, called on its own. *)
(***************************************************************************)
InitTree ==
    symlinks = <<>> /\ TreeInit /\ GatherIdle /\ FpIdle /\ DupIdle /\ MetricIdle
SpecTree == InitTree /\ [][TreeNext]_vars

InitGather ==
    FileSystemInit /\ GatherInit /\ TreeIdle /\ FpIdle /\ DupIdle /\ MetricIdle
SpecGather == InitGather /\ [][GatherNext]_vars

InitFingerprint ==
    symlinks = <<>> /\ FpInit /\ TreeIdle /\ GatherIdle /\ DupIdle /\ MetricIdle
SpecFingerprint == InitFingerprint /\ [][FpNext]_vars

InitDuplication ==
    symlinks = <<>> /\ DupInit /\ TreeIdle /\ GatherIdle /\ FpIdle /\ MetricIdle
SpecDuplication == InitDuplication /\ [][DupNext]_vars

InitMetric ==
    symlinks = <<>> /\ MetricInit /\ TreeIdle /\ GatherIdle /\ FpIdle /\ DupIdle
SpecMetric == InitMetric /\ [][MetricNext]_vars

-----------------------------------------------------------------------------
(***************************************************************************)
(* Properties of the tree builder and pruner.                              *)
(***************************************************************************)
\* C2 (as claimed): the returned work list holds each resolved .py file path
\* at most once, whatever the arguments.
C2_WorkListHasNoDuplicates ==
    gpc = "done" =>
        \A i, j \in 1..Len(tasks) : tasks[i] = tasks[j] => i = j

\* C3 (as claimed): a directory entry named *.py that is a symbolic link
\* produces no FileTask while a directory is walked, neither under its own
\* path nor under the path of its target.
C3_WalkedSymlinkProducesNoTask ==
    \A k \in 1..Len(origins) :
        origins[k].via = "walk" => ~is_symlink(origins[k].entry)

\* The tokens of the text that are neither indentation, line breaks,
\* comments nor the end marker tokenize appends to every text.
VisibleTokens == Cardinality({k \in 1..Len(source) :
                     ~Skipped(source[k]) /\ source[k].type # "ENDMARKER"})

WindowHashes == {hashes[i] : i \in 1..Len(hashes)}

Smaller(a, b) == IF a < b THEN a ELSE b

\* C8 (as claimed): a text with fewer than 25 tokens, the indentation, line
\* break and comment tokens not counted, has the empty fingerprint; so has a
\* text with exactly 24.
C8_FewerThan25TokensGiveEmptyFingerprint ==
    (fpc = "done" /\ VisibleTokens < MIN_TOKS) => fingerprint = {}

\* C9 (as claimed): for a text of at least 25 tokens the fingerprint is the
\* set of the K smallest window hash values: at most K of them, exactly
\* min(K, d) for d distinct window hashes, none left out smaller than one kept.
C9_FingerprintHoldsMinKDistinct ==
    (fpc = "done" /\ Len(toks) >= MIN_TOKS) =>
        /\ fingerprint \subseteq WindowHashes
        /\ Cardinality(fingerprint) <= K
        /\ Cardinality(fingerprint) = Smaller(K, Cardinality(WindowHashes))
        /\ \A x \in WindowHashes \ fingerprint : \A y \in fingerprint : y < x

\* C9 (amended): the fingerprint holds the distinct values among the K
\* smallest entries of the list of window hashes, one entry per window: a
\* hash is kept exactly when fewer than K windows hash below it.  It has at
\* most min(K, d) elements for d distinct window hashes, none left out is
\* smaller than one kept, and it has exactly min(K, d) elements when there
\* are at most K windows or when no two windows hash equally.
C9_FingerprintIsKSmallestEntries ==
    (fpc = "done" /\ Len(toks) >= MIN_TOKS) =>
        /\ fingerprint \subseteq WindowHashes
        /\ fingerprint # {}
        /\ Cardinality(fingerprint) <= Smaller(K, Cardinality(WindowHashes))
        /\ \A x \in WindowHashes :
              x \in fingerprint <=>
                 Cardinality({i \in 1..Len(hashes) : hashes[i] < x}) < K
        /\ \A x \in WindowHashes \ fingerprint : \A y \in fingerprint : y < x
        /\ (Len(hashes) <= K \/ Cardinality(WindowHashes) = Len(hashes)) =>
              Cardinality(fingerprint) = Smaller(K, Cardinality(WindowHashes))

\* More than K windows, some hashing equally, and fewer than min(K, d)
\* values kept.
C9_Witness ==
    /\ fpc = "done"
    /\ Len(hashes) > K
    /\ Cardinality(WindowHashes) < Len(hashes)
    /\ Cardinality(fingerprint) < Smaller(K, Cardinality(WindowHashes))

\* The leaf indices, and the pairs that pass the gate: both fingerprints
\* non-empty and Jaccard similarity at least 0.3.
LeafIndices == DOMAIN leaves

Jaccard10(u, v) ==
    LET inter == Cardinality(Fingerprint(leaves[u]) \cap Fingerprint(leaves[v]))
        union == Cardinality(Fingerprint(leaves[u]) \cup Fingerprint(leaves[v]))
    IN  [inter |-> inter, union |-> union]

PassesGate(u, v) ==
    /\ Fingerprint(leaves[u]) # {}
    /\ Fingerprint(leaves[v]) # {}
    /\ 10 * Jaccard10(u, v).inter >= 3 * Jaccard10(u, v).union

\* SequenceMatcher's ratio for the pair of leaves u and v, as the loop
\* computes it: on (leaves[i].source, leaves[j].source) with i < j.
PairRatio(u, v) ==
    IF u < v THEN ratios[<<leaves[u], leaves[v]>>] ELSE ratios[<<leaves[v], leaves[u]>>]

Partners(u) == {v \in LeafIndices \ {u} : PassesGate(u, v)}

\* C4: after compute_duplication, a leaf with a Duplication record points at
\* the partner with the highest ratio among its pairs that passed the gate,
\* at the one of lowest index among those tied at the maximum; the score is
\* the maximum rounded to 3 decimals; a second run on the same list leaves
\* the same records.
C4_BestPartnerFirstAmongTies ==
    dpc = "done" =>
        /\ \A u \in LeafIndices :
              duplication[u] # None =>
                 /\ best_idx[u] \in Partners(u)
                 /\ best_ratio[u] = PairRatio(u, best_idx[u])
                 /\ \A v \in Partners(u) :
                       /\ ~Greater(PairRatio(u, v), best_ratio[u])
                       /\ ~Greater(best_ratio[u], PairRatio(u, v)) => best_idx[u] <= v
                 /\ duplication[u].other = QualNameOrName(leaves[best_idx[u]])
                 /\ duplication[u].lines_other = LinesOf(leaves[best_idx[u]])
                 /\ LET d == 2 * (duplication[u].score * best_ratio[u].den
                                    - 1000 * best_ratio[u].num)
                    IN  d <= best_ratio[u].den /\ -d <= best_ratio[u].den
        /\ runs >= 2 => duplication = first_run

\* A leaf with two partners tied at its maximum, 122/144, recorded as
\* 0.847, after the second run.
C4_Witness ==
    /\ dpc = "done"
    /\ runs = 2
    /\ \E u \in LeafIndices :
          /\ duplication[u] # None
          /\ \E v, w \in Partners(u) :
                /\ v < w
                /\ best_idx[u] = v
                /\ ~Greater(best_ratio[u], PairRatio(u, w))
          /\ duplication[u].score = 847

\* C5: SequenceMatcher is never run on a pair with an empty fingerprint or
\* with Jaccard similarity below 0.3, no accumulator holds a partner from
\* such a pair, and no Duplication record names such a partner.
C5_GateKeepsLowJaccardPairsOut ==
    /\ dpc \in {"outer", "pairs", "done"} =>
          /\ \A pair \in compared : PassesGate(pair[1], pair[2])
          /\ \A u \in LeafIndices :
                best_idx[u] # -1 =>
                   /\ PassesGate(u, best_idx[u])
                   /\ \/ <<u, best_idx[u]>> \in compared
                      \/ <<best_idx[u], u>> \in compared
    /\ dpc = "done" =>
          \A u \in LeafIndices :
             duplication[u] # None =>
                /\ best_idx[u] # -1
                /\ duplication[u].other = QualNameOrName(leaves[best_idx[u]])

\* A pair with common hashes but Jaccard similarity below 0.3 was skipped,
\* and its first leaf has a record from another pair.
C5_Witness ==
    /\ dpc = "done"
    /\ \E u, v \in LeafIndices :
          /\ u < v
          /\ Jaccard10(u, v).inter > 0
          /\ ~PassesGate(u, v)
          /\ <<u, v>> \notin compared
          /\ duplication[u] # None
          /\ best_idx[u] # v

\* C10: when leaf A's best partner is B with ratio r, B has a best partner
\* too and B's best ratio is at least r; no leaf is its own best partner;
\* and when A gets a Duplication record, so does B.
C10_PartnerHasAtLeastThatRatio ==
    dpc \in {"outer", "pairs", "done"} =>
        \A a \in LeafIndices :
           best_idx[a] # -1 =>
              /\ best_idx[a] # a
              /\ best_idx[a] \in LeafIndices
              /\ best_idx[best_idx[a]] # -1
              /\ ~Greater(best_ratio[a], best_ratio[best_idx[a]])
              /\ dpc = "done" =>
                    /\ duplication[a] # None
                    /\ duplication[best_idx[a]] # None

\* A's best partner is B, and B's best partner is a third leaf with a
\* higher ratio.
C10_Witness ==
    /\ dpc = "done"
    /\ \E a \in LeafIndices :
          /\ duplication[a] # None
          /\ best_idx[best_idx[a]] # a
          /\ Greater(best_ratio[best_idx[a]], best_ratio[a])

\* The number of nodes of the function that are of one of the kinds.
CountOf(kinds) == Cardinality({k \in 1..Len(func) : func[k].kind \in kinds})

\* Every try statement of the function has at least one except clause.
EveryTryHasExcept ==
    \A k \in 1..Len(func) :
        func[k].kind = "Try" =>
           \E h \in 1..Len(func) : func[h].kind = "ExceptHandler" /\ func[h].parent = k

\* C7 (as claimed): the complexity is 1 plus one for each if, for, while and
\* except clause; a function whose only decision construct is one try block
\* with one except clause has complexity 2.
C7_OnePerIfForWhileExcept ==
    (mpc = "done" /\ CountOf({"With", "BoolOp"}) = 0 /\ EveryTryHasExcept) =>
        cyclomatic_complexity = 1 + CountOf({"If", "For", "While", "ExceptHandler"})

\* C7 (amended): the complexity is 1 for a function without decision node;
\* every if, for, while and except clause adds exactly 1, and so does every
\* try block itself (and every with block and boolean operator): one try
\* block with one except clause gives 3.
C7_OnePerDecisionNodeTryIncluded ==
    mpc = "done" =>
        /\ cyclomatic_complexity =
              1 + CountOf({"If", "For", "While", "ExceptHandler"})
                + CountOf({"Try"}) + CountOf({"With", "BoolOp"})
        /\ CountOf(DECISIONS) = 0 => cyclomatic_complexity = 1

\* A function whose only decision construct is one try block with one except
\* clause, analysed: its complexity is 3.
C7_Witness ==
    /\ mpc = "done"
    /\ CountOf({"Try"}) = 1
    /\ CountOf({"ExceptHandler"}) = 1
    /\ CountOf(DECISIONS) = 2
    /\ cyclomatic_complexity = 3

\* The file nodes the for-loop of build_tree has already placed.
Placed == {file_nodes[k] : k \in 1..(fidx - 1)}

DirectoryNodes ==
    {id \in 1..Len(nodes) : id # root /\ nodes[id].nodetype = "directory"}

\* Every non-empty prefix of the resolved parent directory of a placed file.
DirectoryPaths ==
    UNION {{SubSeq(Parent(Resolve(nodes[f].path)), 1, k) :
              k \in 1..Len(Parent(Resolve(nodes[f].path)))} : f \in Placed}

\* The path build_tree knows a directory node by (Path() for the root).
KeyPath(id) == IF id = root THEN <<>> ELSE nodes[id].path

\* What the k-th file node contributes to the children of the directory
\* whose key path is q: itself, the sub-directory on the way to it, or nothing.
Contribution(q, k) ==
    LET f == file_nodes[k]
        dir == Parent(Resolve(nodes[f].path))
    IN  IF dir = q THEN [file |-> f, dir |-> <<>>]
        ELSE IF Len(q) < Len(dir) /\ SubSeq(dir, 1, Len(q)) = q
             THEN [file |-> 0, dir |-> SubSeq(dir, 1, Len(q) + 1)]
             ELSE [file |-> 0, dir |-> <<>>]

\* The children of directory q in encounter order after k file nodes.
RECURSIVE EncounterOrder(_, _)
EncounterOrder(q, k) ==
    IF k = 0 THEN <<>>
    ELSE LET before == EncounterOrder(q, k - 1)
             c == Contribution(q, k)
         IN  IF c.file = 0 /\ c.dir = <<>> THEN before
             ELSE IF \E i \in 1..Len(before) : before[i] = c THEN before
             ELSE Append(before, c)

ChildKey(id) ==
    IF nodes[id].nodetype = "file" THEN [file |-> id, dir |-> <<>>]
    ELSE [file |-> 0, dir |-> nodes[id].path]

\* C1 (as claimed): prune_tree(build_tree(files)) is the first directory on the
\* single-child chain below the synthetic root that has more than one child
\* or directly contains a file node.
RECURSIVE FirstRealDirectory(_)
FirstRealDirectory(id) ==
    IF Len(nodes[id].children) # 1 \/ has_file_children(nodes, nodes[id])
    THEN id
    ELSE FirstRealDirectory(nodes[id].children[1])

C1_PrunedRootIsFirstRealDirectory ==
    (tpc = "done" /\ Len(file_nodes) > 0)
        => pruned = FirstRealDirectory(nodes[root].children[1])

\* C6: the tree holds exactly one directory node per distinct resolved
\* directory path, every placed file node is a child of the node of its
\* immediate parent directory, and the children of every directory (the
\* root included) are in encounter order.
C6_OneNodePerDirectoryInEncounterOrder ==
    tpc \in {"build", "prune", "done"} =>
        /\ \A d1, d2 \in DirectoryNodes :
              nodes[d1].path = nodes[d2].path => d1 = d2
        /\ {nodes[d].path : d \in DirectoryNodes} = DirectoryPaths
        /\ \A f \in Placed :
              \E d \in DirectoryNodes :
                 /\ nodes[d].path = Parent(Resolve(nodes[f].path))
                 /\ \E k \in 1..Len(nodes[d].children) : nodes[d].children[k] = f
        /\ \A d \in DirectoryNodes \cup {root} :
              [k \in 1..Len(nodes[d].children) |-> ChildKey(nodes[d].children[k])]
                 = EncounterOrder(KeyPath(d), fidx - 1)

\* Two file nodes with different path strings are the first two children of
\* one directory node, after build_tree and prune_tree have run.
C6_Witness ==
    /\ tpc = "done"
    /\ \E d \in DirectoryNodes :
          /\ Len(nodes[d].children) >= 2
          /\ nodes[nodes[d].children[1]].nodetype = "file"
          /\ nodes[nodes[d].children[2]].nodetype = "file"
          /\ nodes[nodes[d].children[1]].path # nodes[nodes[d].children[2]].path

=============================================================================
